---------------------------- MODULE Spec2Model ----------------------------
(***************************************************************************)
(* Model of github.com/ojipoji/recordtocsv (recordtocsv.go).               *)
(*                                                                         *)
(* Text is modelled at byte level: a string is a sequence of one-character *)
(* strings, a file is the sequence of bytes it holds.                      *)
(***************************************************************************)
EXTENDS Integers, Sequences, FiniteSets, TLC

(***************************************************************************)
(* Bounds of the model.                                                    *)
(***************************************************************************)
\* Record/Append calls explored per behaviour.
MaxCalls == 2
\* Capacity of the bufio.Writer inside csv.NewWriter, scaled down so that a
\* header plus a row can exceed it (the library's default is 4096 bytes).
BufSize == 12
\* Underlying file writes one call may perform before the disk fails.
MaxWrites == 2
\* Bytes of one probed CSV row (all cells together) in SpecCsv.
MaxRowChars == 3
\* Cells of one probed CSV row in SpecCsv.
MaxCells == 2

(***************************************************************************)
(* Generic helpers on sequences.                                           *)
(***************************************************************************)
IsPrefix(a, b) == Len(a) <= Len(b) /\ SubSeq(b, 1, Len(a)) = a

Contains(s, c) == \E i \in 1..Len(s) : s[i] = c

Range(s) == {s[i] : i \in 1..Len(s)}

(***************************************************************************)
(* time.Now().In(loc) and Time.Format, lines 41-59.                        *)
(***************************************************************************)
\* Asia/Jakarta is UTC+7 with no daylight saving: 7 * 3600 seconds.
JakartaOffset == 25200

SecondsPerDay == 86400

\* The civil date of a day count since 1970-01-01 (proleptic Gregorian), as
\* Time.Date() yields it.
CivilFromDays(days) ==
    LET z   == days + 719468
        era == z \div 146097
        doe == z - era * 146097
        yoe == (doe - doe \div 1460 + doe \div 36524 - doe \div 146096) \div 365
        doy == doe - (365 * yoe + yoe \div 4 - yoe \div 100)
        mp  == (5 * doy + 2) \div 153
        d   == doy - (153 * mp + 2) \div 5 + 1
        m   == IF mp < 10 THEN mp + 3 ELSE mp - 9
        y   == yoe + era * 400 + (IF m <= 2 THEN 1 ELSE 0)
    IN  [year |-> y, month |-> m, day |-> d]

\* Variant of TimeIn that reads the clock in UTC.
TimeInUTC(unix) == CivilFromDays(unix \div SecondsPerDay)

\* time.Now().In(loc): the wall clock (Unix seconds) seen in Asia/Jakarta.
TimeIn(unix) == CivilFromDays((unix + JakartaOffset) \div SecondsPerDay)

DigitChars == <<"0", "1", "2", "3", "4", "5", "6", "7", "8", "9">>

\* n >= 0 in decimal, zero-padded to at least `width` digits.
RECURSIVE Pad(_, _)
Pad(n, width) ==
    IF n < 10 /\ width <= 1 THEN <<DigitChars[n + 1]>>
    ELSE Pad(n \div 10, width - 1) \o <<DigitChars[(n % 10) + 1]>>

\* The switch on r.RecordType: the layouts "2006_01_02", "2006_01", "2006".
\* Any other type takes the default branch (see SupportedType) and has no
\* suffix.
Suffix(recordType, unix) ==
    LET t == TimeIn(unix) IN
    CASE recordType = "daily"   ->
           Pad(t.year, 4) \o <<"_">> \o Pad(t.month, 2) \o <<"_">> \o Pad(t.day, 2)
      [] recordType = "monthly" -> Pad(t.year, 4) \o <<"_">> \o Pad(t.month, 2)
      [] recordType = "yearly"  -> Pad(t.year, 4)
      [] OTHER                  -> <<>>

\* Variant of SupportedType with no default branch.
SupportedTypeAny(recordType) == recordType = recordType

SupportedType(recordType) == recordType \in {"daily", "monthly", "yearly"}

\* filepath.Join(r.Dir, fmt.Sprintf("%s_%s.csv", r.Filename, suffix)).
FilePath(dir, filename, suffix) ==
    dir \o <<"/">> \o filename \o <<"_">> \o suffix \o <<".", "c", "s", "v">>

(***************************************************************************)
(* encoding/csv Writer.Write as used at lines 95 and 122: the bytes of one *)
(* record (Comma = ',', UseCRLF = false).                                  *)
(***************************************************************************)
\* Writer.fieldNeedsQuotes.
FieldNeedsQuotes(field) ==
    /\ field # <<>>
    /\ \/ field = <<"\\", ".">>
       \/ \E i \in 1..Len(field) : field[i] \in {"\n", "\r", "\"", ","}
       \/ field[1] = " "

\* Variant of EscapeQuotes that leaves quotes single.
EscapeQuotesVerbatim(field) == field

\* The body of a quoted field: every quote doubled, the rest verbatim.
RECURSIVE EscapeQuotes(_)
EscapeQuotes(field) ==
    IF field = <<>> THEN <<>>
    ELSE (IF Head(field) = "\"" THEN <<"\"", "\"">> ELSE <<Head(field)>>)
         \o EscapeQuotes(Tail(field))

EncodeField(field) ==
    IF FieldNeedsQuotes(field)
    THEN <<"\"">> \o EscapeQuotes(field) \o <<"\"">>
    ELSE field

RECURSIVE JoinFields(_)
JoinFields(record) ==
    IF record = <<>> THEN <<>>
    ELSE IF Len(record) = 1 THEN EncodeField(record[1])
    ELSE EncodeField(Head(record)) \o <<",">> \o JoinFields(Tail(record))

\* One record as csv.Writer emits it: fields joined by commas, then "\n".
EncodeRecord(record) == JoinFields(record) \o <<"\n">>


(***************************************************************************)
(* bufio.Writer under csv.NewWriter(file), line 85.  An io record is       *)
(*   file  : the bytes of the target file (opened with O_APPEND),          *)
(*   buf   : the bytes buffered and not yet written,                       *)
(*   werr  : the writer's sticky error,                                    *)
(*   quota : how many more file writes succeed (-1: the disk never fails). *)
(***************************************************************************)
\* bufio.Writer.Flush: one write of the whole buffer; a failed write writes
\* nothing and poisons the writer.
BufFlush(io) ==
    IF io.werr \/ io.buf = <<>> THEN io
    ELSE IF io.quota = 0 THEN [io EXCEPT !.werr = TRUE]
    ELSE [io EXCEPT !.file  = @ \o io.buf,
                    !.buf   = <<>>,
                    !.quota = IF @ < 0 THEN @ ELSE @ - 1]

\* bufio.Writer.WriteByte: flush first when the buffer is full.
BufWriteByte(io, ch) ==
    IF io.werr THEN io
    ELSE LET f == IF Len(io.buf) >= BufSize THEN BufFlush(io) ELSE io
         IN  IF f.werr THEN f ELSE [f EXCEPT !.buf = Append(@, ch)]

RECURSIVE BufWriteString(_, _)
BufWriteString(io, s) ==
    IF s = <<>> THEN io ELSE BufWriteString(BufWriteByte(io, Head(s)), Tail(s))

\* csvWriter.Write(record); its error is the writer's sticky error.
CsvWrite(io, record) == BufWriteString(io, EncodeRecord(record))

(***************************************************************************)
(* Payload values.  A Go value is [t, s, n]: its dynamic type, its string  *)
(* (for a string) and its number (for a number or a bool).                 *)
(***************************************************************************)
GoString(s) == [t |-> "string", s |-> s, n |-> 0]
GoInt(n) == [t |-> "int", s |-> <<>>, n |-> n]
GoBool(b) == [t |-> "bool", s |-> <<>>, n |-> IF b THEN 1 ELSE 0]
GoNil == [t |-> "nil", s |-> <<>>, n |-> 0]

\* No members: the empty mapping.
NoFields == <<>>

\* json.Marshal(data), line 105.  A map or a struct (keyed by its json tags)
\* encodes as an object, nil as null, a string as a JSON string, a slice as an
\* array; a channel has no JSON encoding.  Every Go number becomes a JSON
\* number, which no longer tells an int from a float.
JsonMarshalValue(v) ==
    CASE v.t = "int" -> [v EXCEPT !.t = "number"]
      [] OTHER       -> v

JsonMarshal(data) ==
    CASE data.kind \in {"map", "struct"} ->
           [ok |-> TRUE, j |-> "object",
            members |-> [k \in DOMAIN data.fields |-> JsonMarshalValue(data.fields[k])]]
      [] data.kind = "nil"    -> [ok |-> TRUE, j |-> "null", members |-> NoFields]
      [] data.kind = "string" -> [ok |-> TRUE, j |-> "string", members |-> NoFields]
      [] data.kind = "slice"  -> [ok |-> TRUE, j |-> "array", members |-> NoFields]
      [] OTHER                -> [ok |-> FALSE, j |-> "", members |-> NoFields]

\* Variant of JsonUnmarshal that takes any JSON value the way it takes null.
JsonUnmarshalLenient(json) ==
    IF json.j = "object"
    THEN [ok |-> TRUE,
          map |-> [k \in DOMAIN json.members |->
                      IF json.members[k].t = "number"
                      THEN [json.members[k] EXCEPT !.t = "float64"]
                      ELSE json.members[k]]]
    ELSE [ok |-> TRUE, map |-> <<>>]

\* json.Unmarshal(jsonBytes, &dataMap), line 109, into map[string]interface{}:
\* an object fills the map, a JSON number decoding as float64; null leaves the
\* map nil without an error; any other JSON value is an error.
JsonUnmarshalValue(v) ==
    CASE v.t = "number" -> [v EXCEPT !.t = "float64"]
      [] OTHER          -> v

JsonUnmarshal(json) ==
    CASE json.j = "object" ->
           [ok |-> TRUE,
            map |-> [k \in DOMAIN json.members |-> JsonUnmarshalValue(json.members[k])]]
      [] json.j = "null"   -> [ok |-> TRUE, map |-> NoFields]
      [] OTHER             -> [ok |-> FALSE, map |-> NoFields]

(***************************************************************************)
(* fmt.Sprintf("%v", val), line 116.                                       *)
(***************************************************************************)
RECURSIVE StripZeros(_)
StripZeros(digits) ==
    IF Len(digits) > 1 /\ digits[Len(digits)] = "0"
    THEN StripZeros(SubSeq(digits, 1, Len(digits) - 1))
    ELSE digits

\* %v of an integral float64 is %g with the shortest digits: plain decimal
\* while the decimal exponent is below 6, and d.ddde+XX from there on.
FormatFloat(n) ==
    LET abs    == IF n < 0 THEN 0 - n ELSE n
        sign   == IF n < 0 THEN <<"-">> ELSE <<>>
        digits == Pad(abs, 1)
        sig    == StripZeros(digits)
        exp    == Len(digits) - 1
    IN  IF exp < 6 THEN sign \o digits
        ELSE sign \o <<Head(sig)>>
                  \o (IF Len(sig) > 1 THEN <<".">> \o Tail(sig) ELSE <<>>)
                  \o <<"e", "+">> \o Pad(exp, 2)

FormatInt(n) == (IF n < 0 THEN <<"-">> ELSE <<>>) \o Pad(IF n < 0 THEN 0 - n ELSE n, 1)

SprintfV(val) ==
    CASE val.t = "string"  -> val.s
      [] val.t = "float64" -> FormatFloat(val.n)
      [] val.t = "int"     -> FormatInt(val.n)
      [] val.t = "bool"    -> IF val.n = 1 THEN <<"t", "r", "u", "e">>
                                           ELSE <<"f", "a", "l", "s", "e">>
      [] OTHER             -> <<"<", "n", "i", "l", ">">>

\* Variant of Project without the "val != nil" test.
ProjectNilAsValue(column, dataMap) ==
    [i \in 1..Len(column) |->
        IF column[i] \in DOMAIN dataMap THEN SprintfV(dataMap[column[i]]) ELSE <<>>]

\* Lines 113-120: one cell per column, empty for a missing or nil value.
Project(column, dataMap) ==
    [i \in 1..Len(column) |->
        IF column[i] \in DOMAIN dataMap /\ dataMap[column[i]].t # "nil"
        THEN SprintfV(dataMap[column[i]])
        ELSE <<>>]

(***************************************************************************)
(* Append, lines 77-132, as the steps of one call.  A call record k holds  *)
(* the io record's fields and                                              *)
(*   pc     : the next step ("open", "stat", "header", "convert", "flush", *)
(*            "done"),                                                     *)
(*   exists : whether the target file exists,                              *)
(*   size   : stat.Size() as read at line 89,                              *)
(*   err    : the error returned ("" for nil),                             *)
(*   column, data, fault : the arguments and the failure the environment   *)
(*            injects into this call.                                      *)
(***************************************************************************)
IoOf(k) == [file |-> k.file, buf |-> k.buf, werr |-> k.werr, quota |-> k.quota]

WithIo(k, io) ==
    [k EXCEPT !.file = io.file, !.buf = io.buf, !.werr = io.werr, !.quota = io.quota]

\* A return: the deferred csvWriter.Flush (line 86) runs next, whatever err is.
Return(k, err) == [k EXCEPT !.err = err, !.pc = "flush"]

\* Variant of StepOpen that opens with O_TRUNC.
StepOpenTruncating(k) ==
    IF k.fault.kind = "open"
    THEN [k EXCEPT !.err = "open", !.pc = "done"]
    ELSE [k EXCEPT !.exists = TRUE, !.file = <<>>, !.pc = "stat"]

\* Lines 79-82: os.OpenFile(filename, O_APPEND|O_CREATE|O_WRONLY).
StepOpen(k) ==
    IF k.fault.kind = "open"
    THEN [k EXCEPT !.err = "open", !.pc = "done"]
    ELSE [k EXCEPT !.exists = TRUE, !.pc = "stat"]

\* Variant of StepStat that takes every file for empty.
StepStatAlwaysEmpty(k) ==
    IF k.fault.kind = "stat"
    THEN [k EXCEPT !.err = "stat", !.pc = "flush"]
    ELSE [k EXCEPT !.size = 0, !.pc = "header"]

\* Lines 89-92: file.Stat().
StepStat(k) ==
    IF k.fault.kind = "stat"
    THEN Return(k, "stat")
    ELSE [k EXCEPT !.size = Len(k.file), !.pc = "header"]

\* Lines 94-98: the header goes to the writer when the size read was zero.
StepHeader(k) ==
    IF k.size # 0 THEN [k EXCEPT !.pc = "convert"]
    ELSE LET w == WithIo(k, CsvWrite(IoOf(k), k.column))
         IN  IF w.werr THEN Return(w, "header") ELSE [w EXCEPT !.pc = "convert"]

\* Lines 101-129: payload to map, map to record, record to the writer.
StepConvert(k) ==
    LET json == JsonMarshal(k.data)
        dm   == JsonUnmarshal(json)
    IN  IF ~json.ok THEN Return(k, "marshal")
        ELSE IF ~dm.ok THEN Return(k, "unmarshal")
        ELSE LET w == WithIo(k, CsvWrite(IoOf(k), Project(k.column, dm.map)))
             IN  IF w.werr THEN Return(w, "write")
                 ELSE \* csvWriter.Error() reports the same sticky error.
                      Return(w, "")

\* The deferred csvWriter.Flush() and file.Close(), lines 83 and 86: their
\* outcome is not part of the value already returned.
StepFlush(k) == [WithIo(k, BufFlush(IoOf(k))) EXCEPT !.pc = "done"]

AppendStep(k) ==
    CASE k.pc = "open"    -> StepOpen(k)
      [] k.pc = "stat"    -> StepStat(k)
      [] k.pc = "header"  -> StepHeader(k)
      [] k.pc = "convert" -> StepConvert(k)
      [] k.pc = "flush"   -> StepFlush(k)
      [] OTHER            -> k

\* The failure-free disk never fails; a write fault lets n writes through.
Quota(fault) == IF fault.kind = "write" THEN fault.n ELSE 0 - 1

NewCall(exists, file, column, data, fault) ==
    [pc |-> "open", exists |-> exists, file |-> file, buf |-> <<>>, werr |-> FALSE,
     quota |-> Quota(fault), size |-> 0, err |-> "", column |-> column,
     data |-> data, fault |-> fault]

RECURSIVE RunCall(_)
RunCall(k) == IF k.pc = "done" THEN k ELSE RunCall(AppendStep(k))

\* Append(filename, column, data) run from entry to return (named AppendCsv:
\* Sequences already defines Append).
AppendCsv(exists, file, column, data, fault) ==
    RunCall(NewCall(exists, file, column, data, fault))

(***************************************************************************)
(* Record, lines 40-73, from entry to return on file system (f, d): the    *)
(* files by path and the directories that exist.                           *)
(***************************************************************************)
\* os.MkdirAll(r.Dir, 0755), line 65.
MkdirAll(d, dir) == d \cup {dir}

\* The file system after a call k on `path` has run.
WriteBack(f, path, k) == IF k.exists THEN (path :> k.file) @@ f ELSE f

FileOf(f, path) == IF path \in DOMAIN f THEN f[path] ELSE <<>>

Record(c, data, t, fault, f, d) ==
    LET path == FilePath(c.Dir, c.Filename, Suffix(c.RecordType, t))
        k    == AppendCsv(path \in DOMAIN f, FileOf(f, path), c.Column, data, fault)
    IN  IF fault.kind = "tz"
        THEN [err |-> "tz", path |-> <<>>, fs |-> f, dirs |-> d, opened |-> FALSE]
        ELSE IF ~SupportedType(c.RecordType)
        THEN [err |-> "unsupported", path |-> <<>>, fs |-> f, dirs |-> d,
              opened |-> FALSE]
        ELSE IF fault.kind = "mkdir"
        THEN [err |-> "mkdir", path |-> path, fs |-> f, dirs |-> d, opened |-> FALSE]
        ELSE [err |-> k.err, path |-> path, fs |-> WriteBack(f, path, k),
              dirs |-> MkdirAll(d, c.Dir), opened |-> k.exists]

(***************************************************************************)
(* The values the model draws from.                                        *)
(***************************************************************************)
Kid == <<"i", "d">>
Kmsg == <<"m", "s", "g">>
Kx == <<"x">>

ColA == <<Kid, Kmsg>>
ColB == <<Kx, Kid>>
Columns == {ColA, ColB}

RecordTypes == {"daily", "monthly", "yearly", "weekly"}

DirName == <<"l", "o", "g">>
BaseName == <<"r", "e", "c">>

\* NewRecordToCSV(dir, filename, column, recordType), lines 30-37.
NewRecordToCSV(dir, filename, column, recordType) ==
    [Dir |-> dir, Filename |-> filename, Column |-> column, RecordType |-> recordType]

Configs == {NewRecordToCSV(DirName, BaseName, col, rt) : col \in Columns, rt \in RecordTypes}

\* Wall-clock instants (Unix seconds), each at a boundary of the Jakarta
\* calendar that UTC has not reached yet:
\*   1709139600 = 2024-02-28 17:00:00Z = 2024-02-29 00:00 WIB,
\*   1709226000 = 2024-02-29 17:00:00Z = 2024-03-01 00:00 WIB,
\*   1756177200 = 2025-08-26 03:00:00Z = 2025-08-26 10:00 WIB,
\*   1756227599 = 2025-08-26 16:59:59Z = 2025-08-26 23:59:59 WIB,
\*   1756227600 = 2025-08-26 17:00:00Z = 2025-08-27 00:00 WIB,
\*   1756659600 = 2025-08-31 17:00:00Z = 2025-09-01 00:00 WIB,
\*   1767200400 = 2025-12-31 17:00:00Z = 2026-01-01 00:00 WIB.
Calendar ==
    {1709139600, 1709226000, 1756177200, 1756227599, 1756227600, 1756659600,
     1767200400}

\* The two instants of Spec: one day and the first second of the next.
Instants == {1756177200, 1756227600}

Payload(kind, fields) == [kind |-> kind, fields |-> fields]

\* The README's map payload: an int id and a short message.
PayloadSmall == Payload("map", (Kid :> GoInt(1)) @@ (Kmsg :> GoString(<<"h", "i">>)))

\* The README's struct payload: strings that need quoting, and a field that
\* is no column of ColA.
PayloadQuoted ==
    Payload("struct", (Kid :> GoString(<<"1", "2", "3">>))
                      @@ (Kmsg :> GoString(<<"a", ",", "\"", "b">>))
                      @@ (Kx :> GoBool(TRUE)))

\* A seven-digit int id.
PayloadBig ==
    Payload("map", (Kid :> GoInt(1000000)) @@ (Kmsg :> GoString(<<"o", "k">>)))

\* A nil value, a key that is no column of ColA, and no message.
PayloadSparse == Payload("map", (Kid :> GoNil) @@ (Kx :> GoString(<<"z">>)))

Payloads ==
    { PayloadSmall, PayloadQuoted, PayloadBig, PayloadSparse,
      Payload("nil", NoFields),
      Payload("string", NoFields),
      Payload("slice", NoFields),
      Payload("chan", NoFields) }

Fault(kind, n) == [kind |-> kind, n |-> n]
NoFault == Fault("none", 0)

Faults ==
    {Fault(kind, 0) : kind \in {"none", "tz", "mkdir", "open", "stat"}}
    \cup {Fault("write", n) : n \in 0..(MaxWrites - 1)}

(***************************************************************************)
(* State.                                                                  *)
(***************************************************************************)
VARIABLES
    cfg,     \* the RecordToCSVService in use
    now,     \* the wall clock, Unix seconds
    fs,      \* the files: path -> bytes
    dirs,    \* the directories that exist
    calls,   \* calls made so far
    last,    \* the last call: its inputs, its result and the state it began in
    track,   \* per path: the calls since the file was empty, and their rows
    hits,    \* the (instant, record type, path) of every Record that opened a file
    procs,   \* SpecConc: the call each concurrent caller is in
    overlapped, \* SpecConc: whether two calls on one file ever overlapped
    probe    \* SpecCsv: the row under test and its encoding

vars == <<cfg, now, fs, dirs, calls, last, track, hits, procs, overlapped, probe>>

Procs == {1, 2}

IdleCall == [NewCall(FALSE, <<>>, <<>>, Payload("nil", NoFields), NoFault)
                EXCEPT !.pc = "idle"]

NoCall ==
    [op |-> "none", data |-> Payload("nil", NoFields), column |-> <<>>,
     recordType |-> "", now |-> 0, fault |-> NoFault, err |-> "", path |-> <<>>,
     fs |-> <<>>, dirs |-> {}]

NoProbe == [row |-> <<>>, out |-> <<>>, written |-> FALSE]

InitCommon ==
    /\ fs = <<>>
    /\ dirs = {}
    /\ calls = 0
    /\ last = NoCall
    /\ track = <<>>
    /\ hits = {}
    /\ procs = [i \in Procs |-> [call |-> IdleCall, path |-> <<>>]]
    /\ overlapped = FALSE
    /\ probe = NoProbe

\* The services Spec starts from (SpecTime starts from every one of Configs).
SpecConfigs == {c \in Configs : c.Column = ColA /\ c.RecordType # "yearly"}

Init ==
    /\ cfg \in SpecConfigs
    /\ now \in Instants
    /\ InitCommon

(***************************************************************************)
(* Bookkeeping of what the calls on one path should have produced.         *)
(***************************************************************************)
\* The row a call projects from its payload.
RowOf(column, data) == Project(column, JsonUnmarshal(JsonMarshal(data)).map)

FreshTrack == [n |-> 0, expect |-> <<>>, clean |-> TRUE]

TrackOf(tr, path) == IF path \in DOMAIN tr THEN tr[path] ELSE FreshTrack

\* After a Record on `path` that returned err and left the files f.
Tracked(tr, path, column, data, err, f) ==
    LET old == TrackOf(tr, path)
        new == IF err = ""
               THEN [old EXCEPT
                       !.n = @ + 1,
                       !.expect = @ \o (IF old.n = 0 THEN EncodeRecord(column) ELSE <<>>)
                                    \o EncodeRecord(RowOf(column, data))]
               ELSE IF FileOf(f, path) = <<>> THEN FreshTrack
               ELSE [old EXCEPT !.clean = FALSE]
    IN  (path :> new) @@ tr

(***************************************************************************)
(* Actions of the sequential specification.                                *)
(***************************************************************************)
\* One Record(payload) call, from entry to return.
DoRecord(data, fault) ==
    /\ calls < MaxCalls
    /\ LET r == Record(cfg, data, now, fault, fs, dirs) IN
       /\ fs' = r.fs
       /\ dirs' = r.dirs
       /\ last' = [op |-> "Record", data |-> data, column |-> cfg.Column,
                   recordType |-> cfg.RecordType, now |-> now, fault |-> fault,
                   err |-> r.err, path |-> r.path, fs |-> fs, dirs |-> dirs]
       /\ track' = IF r.err \in {"tz", "unsupported", "mkdir"} THEN track
                   ELSE Tracked(track, r.path, cfg.Column, data, r.err, r.fs)
       /\ hits' = IF r.opened
                  THEN hits \cup {[now |-> now, recordType |-> cfg.RecordType,
                                   path |-> r.path]}
                  ELSE hits
    /\ calls' = calls + 1
    /\ UNCHANGED <<cfg, now, procs, overlapped, probe>>

\* One direct Append(filename, column, data) call on an existing file.
DoAppend(path, column, data, fault) ==
    /\ calls < MaxCalls
    /\ LET k == AppendCsv(path \in DOMAIN fs, FileOf(fs, path), column, data, fault) IN
       /\ fs' = WriteBack(fs, path, k)
       /\ last' = [op |-> "Append", data |-> data, column |-> column,
                   recordType |-> "", now |-> now, fault |-> fault,
                   err |-> k.err, path |-> path, fs |-> fs, dirs |-> dirs]
       /\ track' = (path :> [TrackOf(track, path) EXCEPT !.clean = FALSE]) @@ track
    /\ calls' = calls + 1
    /\ UNCHANGED <<cfg, now, dirs, hits, procs, overlapped, probe>>

\* The wall clock moves on.
Tick(t) ==
    /\ t > now
    /\ now' = t
    /\ UNCHANGED <<cfg, fs, dirs, calls, last, track, hits, procs, overlapped, probe>>

Next ==
    \/ \E data \in Payloads, fault \in Faults : DoRecord(data, fault)
    \/ \E path \in DOMAIN fs, column \in Columns, data \in Payloads :
          DoAppend(path, column, data, NoFault)
    \/ \E t \in Instants : Tick(t)

Spec == Init /\ [][Next]_vars

(***************************************************************************)
(* SpecTime: Record under every configuration across the calendar          *)
(* boundaries, with one payload and no injected failure.                   *)
(***************************************************************************)
InitTime ==
    /\ cfg \in Configs
    /\ now \in Calendar
    /\ InitCommon

NextTime ==
    \/ \E data \in {PayloadQuoted} : DoRecord(data, NoFault)
    \/ \E t \in Calendar : Tick(t)

SpecTime == InitTime /\ [][NextTime]_vars

(***************************************************************************)
(* SpecConc: two callers in Record at once, each call advancing a step of  *)
(* Append at a time against the shared file system.  One service, one      *)
(* instant (so one target file), no injected failure.                      *)
(***************************************************************************)
ConcConfig == NewRecordToCSV(DirName, BaseName, ColA, "daily")

ConcPayloads == {PayloadSmall, PayloadQuoted}

InitConc ==
    /\ cfg = ConcConfig
    /\ now \in Instants
    /\ InitCommon

\* Lines 41-67 of Record, up to the call of Append.
CBegin(i, data) ==
    /\ calls < MaxCalls
    /\ procs[i].call.pc = "idle"
    /\ SupportedType(cfg.RecordType)
    /\ LET path == FilePath(cfg.Dir, cfg.Filename, Suffix(cfg.RecordType, now)) IN
       /\ procs' = [procs EXCEPT ![i] =
                       [call |-> NewCall(path \in DOMAIN fs, FileOf(fs, path),
                                         cfg.Column, data, NoFault),
                        path |-> path]]
       /\ overlapped' = (overlapped \/ \E j \in Procs \ {i} :
                                          procs[j].call.pc # "idle" /\ procs[j].path = path)
    /\ dirs' = MkdirAll(dirs, cfg.Dir)
    /\ calls' = calls + 1
    /\ UNCHANGED <<cfg, now, fs, last, track, hits, probe>>

\* The next step of caller i's Append, on the file as it is now.
CStep(i) ==
    /\ procs[i].call.pc \notin {"idle", "done"}
    /\ LET path == procs[i].path
           k    == AppendStep([procs[i].call EXCEPT !.exists = path \in DOMAIN fs,
                                                   !.file = FileOf(fs, path)])
       IN  /\ fs' = WriteBack(fs, path, k)
           /\ procs' = [procs EXCEPT ![i].call = k]
    /\ UNCHANGED <<cfg, now, dirs, calls, last, track, hits, overlapped, probe>>

\* Caller i's Record returns.
CReturn(i) ==
    /\ procs[i].call.pc = "done"
    /\ last' = [op |-> "Record", data |-> procs[i].call.data, column |-> cfg.Column,
                recordType |-> cfg.RecordType, now |-> now, fault |-> NoFault,
                err |-> procs[i].call.err, path |-> procs[i].path,
                fs |-> fs, dirs |-> dirs]
    /\ procs' = [procs EXCEPT ![i] = [call |-> IdleCall, path |-> <<>>]]
    /\ UNCHANGED <<cfg, now, fs, dirs, calls, track, hits, overlapped, probe>>

NextConc ==
    \/ \E i \in Procs, data \in ConcPayloads : CBegin(i, data)
    \/ \E i \in Procs : CStep(i)
    \/ \E i \in Procs : CReturn(i)

SpecConc == InitConc /\ [][NextConc]_vars

(***************************************************************************)
(* SpecCsv: csv.Writer on rows built a cell and a byte at a time.          *)
(***************************************************************************)
CsvChars == {"a", " ", ",", "\"", "\n", "\r"}

RECURSIVE TotalLen(_)
TotalLen(row) == IF row = <<>> THEN 0 ELSE Len(Head(row)) + TotalLen(Tail(row))

ProbeCell ==
    /\ Len(probe.row) < MaxCells
    /\ probe' = [row |-> Append(probe.row, <<>>), out |-> <<>>, written |-> FALSE]
    /\ UNCHANGED <<cfg, now, fs, dirs, calls, last, track, hits, procs, overlapped>>

ProbeChar(c) ==
    /\ probe.row # <<>>
    /\ TotalLen(probe.row) < MaxRowChars
    /\ probe' = [row |-> [probe.row EXCEPT ![Len(probe.row)] = Append(@, c)],
                 out |-> <<>>, written |-> FALSE]
    /\ UNCHANGED <<cfg, now, fs, dirs, calls, last, track, hits, procs, overlapped>>

\* csvWriter.Write(record) and the flush, onto an empty file.
ProbeWrite ==
    /\ probe.row # <<>>
    /\ ~probe.written
    /\ LET io == BufFlush(CsvWrite([file |-> <<>>, buf |-> <<>>, werr |-> FALSE,
                                    quota |-> 0 - 1], probe.row))
       IN  probe' = [probe EXCEPT !.out = io.file, !.written = TRUE]
    /\ UNCHANGED <<cfg, now, fs, dirs, calls, last, track, hits, procs, overlapped>>

InitCsv ==
    /\ cfg = ConcConfig
    /\ now \in Instants
    /\ InitCommon

NextCsv ==
    \/ ProbeCell
    \/ \E c \in CsvChars : ProbeChar(c)
    \/ ProbeWrite

SpecCsv == InitCsv /\ [][NextCsv]_vars

(***************************************************************************)
(* The reading side, for the claims that speak of parsing a produced file: *)
(* a standard CSV reader, here encoding/csv's Reader with its defaults     *)
(* (Comma ',', no LazyQuotes, FieldsPerRecord 0).  It reads a line at a    *)
(* time, turns a line's closing "\r\n" into "\n", skips blank lines, and   *)
(* expects every record to have as many fields as the first.               *)
(***************************************************************************)
IndexOf(s, c) ==
    IF Contains(s, c) THEN CHOOSE i \in 1..Len(s) : s[i] = c /\ \A j \in 1..(i - 1) : s[j] # c
    ELSE 0

DropFirst(s, n) == SubSeq(s, n + 1, Len(s))

\* The bytes up to and including the first "\n" (all of them when there is none).
RawLine(s) == IF Contains(s, "\n") THEN SubSeq(s, 1, IndexOf(s, "\n")) ELSE s

\* Reader.readLine's clean-up of a raw line.
NormLine(raw) ==
    LET n == Len(raw) IN
    IF n >= 2 /\ raw[n - 1] = "\r" /\ raw[n] = "\n"
    THEN SubSeq(raw, 1, n - 2) \o <<"\n">>
    ELSE IF n >= 1 /\ raw[n] = "\r" THEN SubSeq(raw, 1, n - 1)
    ELSE raw

LengthNL(line) == IF line # <<>> /\ line[Len(line)] = "\n" THEN 1 ELSE 0

ParseError == [ok |-> FALSE, fields |-> <<>>, rest |-> <<>>]

RECURSIVE ParseFields(_, _, _)
RECURSIVE ParseQuoted(_, _, _, _)

\* line: what is left of the current line; rest: the input after it;
\* fields: the fields of this record read so far.
ParseFields(line, rest, fields) ==
    IF line = <<>> \/ line[1] # "\""
    THEN LET i     == IndexOf(line, ",")
             field == IF i > 0 THEN SubSeq(line, 1, i - 1)
                      ELSE SubSeq(line, 1, Len(line) - LengthNL(line))
         IN  IF Contains(field, "\"") THEN ParseError
             ELSE IF i > 0 THEN ParseFields(DropFirst(line, i), rest, Append(fields, field))
             ELSE [ok |-> TRUE, fields |-> Append(fields, field), rest |-> rest]
    ELSE ParseQuoted(Tail(line), rest, <<>>, fields)

\* Inside a quoted field whose text so far is acc.
ParseQuoted(line, rest, acc, fields) ==
    LET i == IndexOf(line, "\"") IN
    IF i > 0
    THEN LET text  == acc \o SubSeq(line, 1, i - 1)
             after == DropFirst(line, i)
         IN  IF after # <<>> /\ after[1] = "\""
             THEN ParseQuoted(Tail(after), rest, Append(text, "\""), fields)
             ELSE IF after # <<>> /\ after[1] = ","
             THEN ParseFields(Tail(after), rest, Append(fields, text))
             ELSE IF LengthNL(after) = Len(after)
             THEN [ok |-> TRUE, fields |-> Append(fields, text), rest |-> rest]
             ELSE ParseError
    ELSE IF line # <<>> /\ rest # <<>>
    THEN ParseQuoted(NormLine(RawLine(rest)), DropFirst(rest, Len(RawLine(rest))),
                     acc \o line, fields)
    ELSE ParseError

\* Reader.ReadAll: the records of the input, or an error.
RECURSIVE ReadRecords(_, _)
ReadRecords(s, records) ==
    IF s = <<>> THEN [ok |-> TRUE, records |-> records]
    ELSE LET raw  == RawLine(s)
             line == NormLine(raw)
             rest == DropFirst(s, Len(raw))
         IN  IF Len(line) = LengthNL(line) THEN ReadRecords(rest, records)
             ELSE LET r == ParseFields(line, rest, <<>>) IN
                  IF ~r.ok THEN [ok |-> FALSE, records |-> <<>>]
                  ELSE IF records # <<>> /\ Len(r.fields) # Len(records[1])
                  THEN [ok |-> FALSE, records |-> <<>>]
                  ELSE ReadRecords(r.rest, Append(records, r.fields))

ReadAll(s) == ReadRecords(s, <<>>)

(***************************************************************************)
(* What the claims speak of, read off the last call.                       *)
(***************************************************************************)
Called == last.op \in {"Record", "Append"}

\* The target file before and after the last call.
Before == FileOf(last.fs, last.path)
After == FileOf(fs, last.path)

\* The bytes the last call added to its target file (when it only appended).
Added == IF IsPrefix(Before, After) THEN DropFirst(After, Len(Before)) ELSE <<"?">>

\* The header the last call owes: its columns, when the file was empty.
HeaderDue == IF Before = <<>> THEN EncodeRecord(last.column) ELSE <<>>

IsMapping(data) == data.kind \in {"map", "struct"}

\* The last call met no injected failure and no unsupported record type, so
\* it got as far as converting its payload.
Unhindered ==
    /\ Called
    /\ last.fault = NoFault
    /\ last.op = "Record" => last.recordType \in {"daily", "monthly", "yearly"}

\* A payload value as the specification renders it: a string verbatim, an
\* integer in plain decimal digits, a boolean as true or false.
PlainValue(v) ==
    CASE v.t = "string" -> v.s
      [] v.t = "int"    -> FormatInt(v.n)
      [] v.t = "bool"   -> IF v.n = 1 THEN <<"t", "r", "u", "e">>
                                      ELSE <<"f", "a", "l", "s", "e">>
      [] OTHER          -> <<>>

\* How the code renders a value of the payload: as it comes back from JSON.
CodeValue(v) == SprintfV(JsonUnmarshalValue(JsonMarshalValue(v)))

\* The cells expected of a mapping payload: per column, the rendering of the
\* value under that key, and nothing for a key that is missing or null.
ExpectedCells(column, data) ==
    [i \in 1..Len(column) |->
        IF column[i] \in DOMAIN data.fields /\ data.fields[column[i]].t # "nil"
        THEN CodeValue(data.fields[column[i]])
        ELSE <<>>]

\* The same with every value rendered as the specification words it.
PlainCells(column, data) ==
    [i \in 1..Len(column) |->
        IF column[i] \in DOMAIN data.fields /\ data.fields[column[i]].t # "nil"
        THEN PlainValue(data.fields[column[i]])
        ELSE <<>>]

\* C1: after n >= 1 successful Record calls on one period's file, started
\* absent or empty, the file is the header once and then the n rows, in
\* call order.
C1_HeaderOnceThenRows ==
    \A p \in DOMAIN track :
        (track[p].clean /\ track[p].n >= 1) => FileOf(fs, p) = track[p].expect

\* C2: with an unsupported record type, Record returns an error and neither
\* a directory nor a file is created or written.
C2_UnsupportedTouchesNothing ==
    (last.op = "Record" /\ last.recordType \notin {"daily", "monthly", "yearly"})
        => (last.err # "" /\ fs = last.fs /\ dirs = last.dirs)

C2_Witness ==
    /\ last.op = "Record"
    /\ last.recordType = "weekly"
    /\ last.fault = NoFault
    /\ IsMapping(last.data)
    /\ last.err = "unsupported"
    /\ dirs = {}

\* C4: the row a call appends for a mapping payload parses to exactly one
\* cell per column, in column order: the value's rendering where the key is
\* present and not null, the empty string otherwise; no other key shows up.
C4_RowIsProjection ==
    (Unhindered /\ IsMapping(last.data))
        => LET got == ReadAll(Added) IN
           /\ last.err = ""
           /\ got.ok
           /\ got.records =
                (IF Before = <<>> THEN <<last.column>> ELSE <<>>)
                \o <<ExpectedCells(last.column, last.data)>>

C4_Witness ==
    /\ Unhindered /\ IsMapping(last.data)
    /\ \E i \in 1..Len(last.column) : last.column[i] \notin DOMAIN last.data.fields
    /\ \E key \in DOMAIN last.data.fields : key \notin Range(last.column)
    /\ \E key \in DOMAIN last.data.fields : last.data.fields[key].t = "nil"
    /\ Added # <<>>

\* C5: a call that returns success has written its row (and the header it
\* owed) to the target file.
C5_SuccessMeansWritten ==
    (Called /\ last.err = "")
        => After = Before \o HeaderDue \o EncodeRecord(RowOf(last.column, last.data))

\* C6: every step only appends: each file that exists keeps existing with
\* its old bytes as a prefix of the new ones, and a call leaves every file
\* but its target as it was.
C6_AppendOnly ==
    [][ /\ \A p \in DOMAIN fs : p \in DOMAIN fs' /\ IsPrefix(fs[p], fs'[p])
        /\ \A p \in DOMAIN fs : (calls' # calls /\ p # last'.path) => fs'[p] = fs[p]
      ]_vars

C6_Witness ==
    /\ Called
    /\ Before # <<>>
    /\ ~IsPrefix(EncodeRecord(last.column), Before)
    /\ After # Before

\* C9: an integral payload value is written as its plain decimal digits.
C9_IntegersPlainDecimal ==
    (Unhindered /\ IsMapping(last.data))
        => Added = HeaderDue
                   \o EncodeRecord(PlainCells(last.column, last.data))

\* No data row was added: the file is as before, or was empty and now holds
\* at most the header.
NoRowAdded == After = Before \/ (Before = <<>> /\ After = EncodeRecord(last.column))

\* C10 as claimed: a payload whose JSON form is a scalar, a sequence or null,
\* or that has none, yields a serialization error and no data row.
C10_NoMappingIsError ==
    (Unhindered /\ ~IsMapping(last.data))
        => (last.err \in {"marshal", "unmarshal"} /\ NoRowAdded)

\* C10 amended: a payload whose JSON form is a scalar or a sequence, or that
\* has none, yields an error (a serialization error unless an earlier step
\* failed) and no data row; a nil payload, whose JSON form is null, is not an
\* error: its row of empty cells is appended.
C10_NoObjectIsErrorNilIsEmptyRow ==
    /\ (Called /\ last.data.kind \in {"string", "slice", "chan"})
          => /\ last.err # ""
             /\ NoRowAdded
             /\ Unhindered => last.err \in {"marshal", "unmarshal"}
    /\ (Unhindered /\ last.data.kind = "nil")
          => /\ last.err = ""
             /\ Added = HeaderDue \o EncodeRecord([i \in 1..Len(last.column) |-> <<>>])

C10_Witness ==
    /\ Unhindered
    /\ last.data.kind = "slice"
    /\ last.err = "unmarshal"
    /\ Before = <<>> /\ After = EncodeRecord(last.column)

(***************************************************************************)
(* The calendar, worked out the long way for the claim about file names:   *)
(* the date of an instant is the valid (year, month, day) whose day count  *)
(* since 1970-01-01, summed year by year and month by month, is the        *)
(* instant's day in UTC+7.                                                 *)
(***************************************************************************)
IsLeap(y) == (y % 4 = 0 /\ y % 100 # 0) \/ y % 400 = 0

DaysInMonth(y, m) ==
    IF m = 2 THEN (IF IsLeap(y) THEN 29 ELSE 28)
    ELSE IF m \in {4, 6, 9, 11} THEN 30 ELSE 31

RECURSIVE DaysBeforeYear(_)
DaysBeforeYear(y) ==
    IF y <= 1970 THEN 0
    ELSE DaysBeforeYear(y - 1) + (IF IsLeap(y - 1) THEN 366 ELSE 365)

RECURSIVE DaysBeforeMonth(_, _)
DaysBeforeMonth(y, m) ==
    IF m <= 1 THEN 0 ELSE DaysBeforeMonth(y, m - 1) + DaysInMonth(y, m - 1)

DaysFromCivil(y, m, d) == DaysBeforeYear(y) + DaysBeforeMonth(y, m) + (d - 1)

\* The Jakarta date of each instant of the model.
WallDate ==
    [t \in Calendar \cup Instants |->
        CHOOSE date \in [year : 2023..2027, month : 1..12, day : 1..31] :
            /\ date.day <= DaysInMonth(date.year, date.month)
            /\ DaysFromCivil(date.year, date.month, date.day)
                 = (t + 7 * 3600) \div (24 * 3600)]

TwoDigits(n) == <<DigitChars[(n \div 10) + 1], DigitChars[(n % 10) + 1]>>

FourDigits(n) == TwoDigits(n \div 100) \o TwoDigits(n % 100)

\* YYYY_MM_DD, YYYY_MM or YYYY of a date.
PeriodName(recordType, date) ==
    CASE recordType = "daily" ->
           FourDigits(date.year) \o <<"_">> \o TwoDigits(date.month)
           \o <<"_">> \o TwoDigits(date.day)
      [] recordType = "monthly" ->
           FourDigits(date.year) \o <<"_">> \o TwoDigits(date.month)
      [] OTHER -> FourDigits(date.year)

SamePeriod(recordType, a, b) ==
    CASE recordType = "daily"   -> a = b
      [] recordType = "monthly" -> a.year = b.year /\ a.month = b.month
      [] OTHER                  -> a.year = b.year

\* C3: a Record with a valid granularity writes {Dir}/{Filename}_{suffix}.csv
\* and no other file, the suffix being the Jakarta date of the call's instant
\* as YYYY_MM_DD, YYYY_MM or YYYY; two calls of one granularity hit the same
\* file exactly when their instants lie in the same period.
C3_PathIsPeriodOfJakartaDate ==
    /\ (last.op = "Record" /\ last.err \notin {"tz", "unsupported"})
          => /\ last.path = cfg.Dir \o <<"/">> \o cfg.Filename \o <<"_">>
                            \o PeriodName(last.recordType, WallDate[last.now])
                            \o <<".", "c", "s", "v">>
             /\ \A q \in DOMAIN fs :
                   (q \notin DOMAIN last.fs \/ fs[q] # last.fs[q]) => q = last.path
    /\ \A g, h \in hits :
          g.recordType = h.recordType
             => (g.path = h.path
                   <=> SamePeriod(g.recordType, WallDate[g.now], WallDate[h.now]))

C3_Witness ==
    \E g, h \in hits :
        /\ g.recordType = "daily" /\ h.recordType = "daily"
        /\ g.now = 1756227599 /\ h.now = 1756227600
        /\ g.path # h.path
        /\ g.path \in DOMAIN fs /\ h.path \in DOMAIN fs
        /\ last.path = h.path

\* C7 as claimed: whatever the cells hold, the written row parses back to
\* exactly those cells.
C7_RoundTrip ==
    probe.written => ReadAll(probe.out) = [ok |-> TRUE, records |-> <<probe.row>>]

HasCRLF(cell) == \E i \in 1..(Len(cell) - 1) : cell[i] = "\r" /\ cell[i + 1] = "\n"

\* C7 amended: the written row parses back to exactly its cells, commas,
\* quotes and newlines included, unless it is a single empty cell (written as
\* a blank line, which the reader skips) or a cell holds a carriage return
\* followed by a line feed (which the reader hands back as a line feed).
C7_RoundTripUnlessBlankOrCRLF ==
    (/\ probe.written
     /\ probe.row # <<<<>>>>
     /\ \A i \in 1..Len(probe.row) : ~HasCRLF(probe.row[i]))
        => ReadAll(probe.out) = [ok |-> TRUE, records |-> <<probe.row>>]

C7_Witness ==
    /\ probe.written
    /\ Len(probe.row) = 2
    /\ \E i \in 1..2 : Contains(probe.row[i], ",")
    /\ \E i \in 1..2 : Contains(probe.row[i], "\"")
    /\ \E i \in 1..2 : Contains(probe.row[i], "\n")
    /\ ReadAll(probe.out).records = <<probe.row>>

\* How many lines of a file are the header line of `column`.
HeaderCount(file, column) ==
    LET h == EncodeRecord(column) IN
    Cardinality({i \in 1..Len(file) :
                    /\ i = 1 \/ file[i - 1] = "\n"
                    /\ i + Len(h) - 1 <= Len(file)
                    /\ SubSeq(file, i, i + Len(h) - 1) = h})

\* C8: as long as no two calls on one file overlap, a non-empty file starts
\* with its header and holds it once; two overlapping calls on an empty file
\* can both read size zero and leave two header rows (the witness).
C8_OneHeaderUnlessOverlap ==
    ~overlapped
        => \A p \in DOMAIN fs :
              fs[p] # <<>> => /\ IsPrefix(EncodeRecord(cfg.Column), fs[p])
                              /\ HeaderCount(fs[p], cfg.Column) = 1

C8_Witness ==
    /\ overlapped
    /\ \A i \in Procs : procs[i].call.pc = "done" /\ procs[i].call.size = 0
                        /\ procs[i].call.err = ""
    /\ \E p \in DOMAIN fs : HeaderCount(fs[p], cfg.Column) = 2

=============================================================================
